---- MODULE Spec2Model ----
(***************************************************************************)
(* A model of the ReAct agent of chat-agent/src/react_agent: the graph of  *)
(* graph.py (call_model -> tools -> process_tool_results -> call_model),   *)
(* the summarizer inside process_tool_results, and the Quantics tools of   *)
(* tools.py as far as the graph sees them.                                 *)
(*                                                                         *)
(* Python strings are modelled as sequences of atoms (TLA+ strings): one   *)
(* atom is a word, a whitespace character or a punctuation character.      *)
(* json.dumps, json.loads, repr and str.strip are computed on these        *)
(* sequences.                                                              *)
(***************************************************************************)
EXTENDS Integers, Sequences, FiniteSets, TLC

(***************************************************************************)
(* Python values                                                           *)
(***************************************************************************)
PyNone == [t |-> "null"]
PyBool(b) == [t |-> "bool", b |-> b]
PyNum(n) == [t |-> "num", n |-> n]
PyStr(s) == [t |-> "str", s |-> s]
PyList(xs) == [t |-> "list", items |-> xs]
PyDict(ps) == [t |-> "dict", pairs |-> ps]

IsStr(v) == v.t = "str"
IsDict(v) == v.t = "dict"

\* dict.__setitem__: a key already present keeps its position and takes the
\* new value (what json.loads does with a repeated key).
DictSet(ps, k, v) ==
  IF \E i \in 1..Len(ps) : ps[i].k = k
  THEN [i \in 1..Len(ps) |-> IF ps[i].k = k THEN [k |-> k, v |-> v] ELSE ps[i]]
  ELSE Append(ps, [k |-> k, v |-> v])

\* dict.get(key): the value, or None when the key is absent.
DictGet(d, k) ==
  IF \E i \in 1..Len(d.pairs) : d.pairs[i].k = k
  THEN d.pairs[CHOOSE i \in 1..Len(d.pairs) : d.pairs[i].k = k].v
  ELSE PyNone

\* Python truthiness (bool(v)).
Truthy(v) ==
  CASE v.t = "null" -> FALSE
    [] v.t = "bool" -> v.b
    [] v.t = "num" -> v.n # "0"
    [] v.t = "str" -> v.s # <<>>
    [] v.t = "list" -> v.items # <<>>
    [] v.t = "dict" -> v.pairs # <<>>

(***************************************************************************)
(* Text                                                                    *)
(***************************************************************************)
Whitespace == {" ", "\n"}
NumAtoms == {"0", "7"}
Quote == "\""
EscQuote == "\\\""
EscNewline == "\\n"

RECURSIVE LStrip(_)
LStrip(s) == IF s # <<>> /\ Head(s) \in Whitespace THEN LStrip(Tail(s)) ELSE s

RECURSIVE RStrip(_)
RStrip(s) ==
  IF s # <<>> /\ s[Len(s)] \in Whitespace THEN RStrip(SubSeq(s, 1, Len(s) - 1)) ELSE s

\* str.strip()
Strip(s) == RStrip(LStrip(s))

\* s contains t as a contiguous substring (Python's `t in s`).
Contains(s, t) ==
  \E i \in 0..(Len(s) - Len(t)) : SubSeq(s, i + 1, i + Len(t)) = t

(***************************************************************************)
(* json.dumps with the default separators, as ToolNode applies it to a     *)
(* tool's return value                                                     *)
(***************************************************************************)
EscapeAtom(a) ==
  IF a = Quote THEN EscQuote ELSE IF a = "\n" THEN EscNewline ELSE a

JsonString(s) == <<Quote>> \o [i \in 1..Len(s) |-> EscapeAtom(s[i])] \o <<Quote>>

RECURSIVE JsonDumps(_)
RECURSIVE JsonDumpItems(_)
RECURSIVE JsonDumpPairs(_)
JsonDumps(v) ==
  CASE v.t = "null" -> <<"null">>
    [] v.t = "bool" -> IF v.b THEN <<"true">> ELSE <<"false">>
    [] v.t = "num" -> <<v.n>>
    [] v.t = "str" -> JsonString(v.s)
    [] v.t = "list" -> <<"[">> \o JsonDumpItems(v.items) \o <<"]">>
    [] v.t = "dict" -> <<"{">> \o JsonDumpPairs(v.pairs) \o <<"}">>
JsonDumpItems(xs) ==
  IF xs = <<>> THEN <<>>
  ELSE JsonDumps(Head(xs))
       \o (IF Len(xs) > 1 THEN <<",", " ">> \o JsonDumpItems(Tail(xs)) ELSE <<>>)
JsonDumpPairs(ps) ==
  IF ps = <<>> THEN <<>>
  ELSE JsonString(Head(ps).k) \o <<":", " ">> \o JsonDumps(Head(ps).v)
       \o (IF Len(ps) > 1 THEN <<",", " ">> \o JsonDumpPairs(Tail(ps)) ELSE <<>>)

(***************************************************************************)
(* json.loads: a recursive-descent parser.  A result is                    *)
(* [ok, v, next]: next is the index of the first atom not consumed.        *)
(***************************************************************************)
ParseFail == [ok |-> FALSE, v |-> PyNone, next |-> 0]
ParseOk(v, n) == [ok |-> TRUE, v |-> v, next |-> n]

RECURSIVE SkipWs(_, _)
SkipWs(s, i) == IF i <= Len(s) /\ s[i] \in Whitespace THEN SkipWs(s, i + 1) ELSE i

\* The body of a string literal from index i (after the opening quote) up to
\* the closing quote; a raw newline inside a literal is a control character
\* and is rejected.
RECURSIVE ParseStringBody(_, _, _)
ParseStringBody(s, i, acc) ==
  IF i > Len(s) THEN ParseFail
  ELSE IF s[i] = Quote THEN ParseOk(PyStr(acc), i + 1)
  ELSE IF s[i] = "\n" THEN ParseFail
  ELSE IF s[i] = EscQuote THEN ParseStringBody(s, i + 1, Append(acc, Quote))
  ELSE IF s[i] = EscNewline THEN ParseStringBody(s, i + 1, Append(acc, "\n"))
  ELSE ParseStringBody(s, i + 1, Append(acc, s[i]))

RECURSIVE ParseValue(_, _)
RECURSIVE ParseElements(_, _, _)
RECURSIVE ParseMembers(_, _, _)
ParseValue(s, i0) ==
  LET i == SkipWs(s, i0) IN
  IF i > Len(s) THEN ParseFail
  ELSE CASE s[i] = "null" -> ParseOk(PyNone, i + 1)
         [] s[i] = "true" -> ParseOk(PyBool(TRUE), i + 1)
         [] s[i] = "false" -> ParseOk(PyBool(FALSE), i + 1)
         [] s[i] \in NumAtoms -> ParseOk(PyNum(s[i]), i + 1)
         [] s[i] = Quote -> ParseStringBody(s, i + 1, <<>>)
         [] s[i] = "[" ->
              LET j == SkipWs(s, i + 1) IN
              IF j <= Len(s) /\ s[j] = "]" THEN ParseOk(PyList(<<>>), j + 1)
              ELSE ParseElements(s, j, <<>>)
         [] s[i] = "{" ->
              LET j == SkipWs(s, i + 1) IN
              IF j <= Len(s) /\ s[j] = "}" THEN ParseOk(PyDict(<<>>), j + 1)
              ELSE ParseMembers(s, j, <<>>)
         [] OTHER -> ParseFail
\* The elements of an array from index i, up to and including "]".
ParseElements(s, i, acc) ==
  LET r == ParseValue(s, i) IN
  IF ~r.ok THEN ParseFail
  ELSE LET j == SkipWs(s, r.next) IN
       IF j > Len(s) THEN ParseFail
       ELSE IF s[j] = "]" THEN ParseOk(PyList(Append(acc, r.v)), j + 1)
       ELSE IF s[j] = "," THEN ParseElements(s, j + 1, Append(acc, r.v))
       ELSE ParseFail
\* The members of an object from index i (at a key), up to and including "}".
ParseMembers(s, i0, acc) ==
  LET i == SkipWs(s, i0) IN
  IF i > Len(s) \/ s[i] # Quote THEN ParseFail
  ELSE LET k == ParseStringBody(s, i + 1, <<>>) IN
       IF ~k.ok THEN ParseFail
       ELSE LET c == SkipWs(s, k.next) IN
            IF c > Len(s) \/ s[c] # ":" THEN ParseFail
            ELSE LET r == ParseValue(s, c + 1) IN
                 IF ~r.ok THEN ParseFail
                 ELSE LET j == SkipWs(s, r.next)
                          acc2 == DictSet(acc, k.v.s, r.v)
                      IN IF j > Len(s) THEN ParseFail
                         ELSE IF s[j] = "}" THEN ParseOk(PyDict(acc2), j + 1)
                         ELSE IF s[j] = "," THEN ParseMembers(s, j + 1, acc2)
                         ELSE ParseFail

\* json.loads(s): [ok |-> FALSE] stands for JSONDecodeError; trailing text
\* other than whitespace is an error ("Extra data").
JsonLoads(s) ==
  LET r == ParseValue(s, 1) IN
  IF r.ok /\ SkipWs(s, r.next) > Len(s) THEN r ELSE ParseFail

(***************************************************************************)
(* repr / str / type of a Python value, as an f-string renders them        *)
(***************************************************************************)
ReprAtom(a) == IF a = "\n" THEN EscNewline ELSE a

RECURSIVE PyRepr(_)
RECURSIVE ReprItems(_)
RECURSIVE ReprPairs(_)
PyRepr(v) ==
  CASE v.t = "null" -> <<"None">>
    [] v.t = "bool" -> IF v.b THEN <<"True">> ELSE <<"False">>
    [] v.t = "num" -> <<v.n>>
    [] v.t = "str" -> <<"'">> \o [i \in 1..Len(v.s) |-> ReprAtom(v.s[i])] \o <<"'">>
    [] v.t = "list" -> <<"[">> \o ReprItems(v.items) \o <<"]">>
    [] v.t = "dict" -> <<"{">> \o ReprPairs(v.pairs) \o <<"}">>
ReprItems(xs) ==
  IF xs = <<>> THEN <<>>
  ELSE PyRepr(Head(xs))
       \o (IF Len(xs) > 1 THEN <<",", " ">> \o ReprItems(Tail(xs)) ELSE <<>>)
ReprPairs(ps) ==
  IF ps = <<>> THEN <<>>
  ELSE PyRepr(PyStr(Head(ps).k)) \o <<":", " ">> \o PyRepr(Head(ps).v)
       \o (IF Len(ps) > 1 THEN <<",", " ">> \o ReprPairs(Tail(ps)) ELSE <<>>)

\* format(v) inside an f-string: a str is itself, anything else its repr.
Format(v) == IF IsStr(v) THEN v.s ELSE PyRepr(v)

\* f"{type(v)}"
TypeName(v) ==
  CASE v.t = "null" -> "<class 'NoneType'>"
    [] v.t = "bool" -> "<class 'bool'>"
    [] v.t = "num" -> "<class 'int'>"
    [] v.t = "str" -> "<class 'str'>"
    [] v.t = "list" -> "<class 'list'>"
    [] v.t = "dict" -> "<class 'dict'>"

(***************************************************************************)
(* process_tool_results, graph.py lines 90-128: the summary of the content *)
(* of a ToolMessage.  The content is a str or, for content blocks, a list. *)
(***************************************************************************)
SummaryHeader == <<"Tool execution summary:", "\n">>
NonJsonMarker == <<"Received non-JSON string output:", " ">>
FailureMarker == <<"Tool reported failure:", " ">>
ParsedDictMarker == <<"Tool Result (parsed dict):", " ">>
UnexpectedMarker == <<"Received unexpected tool output format:", " ">>

\* NonJsonLine reporting tool_output.strip() instead of tool_output.
NonJsonLine_Stripped(content) ==
  IF IsStr(content) /\ ~JsonLoads(content.s).ok
  THEN NonJsonMarker \o Strip(content.s) \o <<"\n">>
  ELSE <<>>

\* Lines 95-102: json.loads of a str content; the line added on JSONDecodeError.
NonJsonLine(content) ==
  IF IsStr(content) /\ ~JsonLoads(content.s).ok
  THEN NonJsonMarker \o content.s \o <<"\n">>
  ELSE <<>>

\* Lines 97-99: tool_output after the parse attempt.
EffectivePayload(content) ==
  IF IsStr(content) /\ JsonLoads(content.s).ok THEN JsonLoads(content.s).v ELSE content

\* Lines 112-114: `success is False and error_msg`.
ReportsFailure(d) ==
  DictGet(d, <<"success">>) = PyBool(FALSE) /\ Truthy(DictGet(d, <<"error">>))

\* PayloadLine with the error text rendered by repr (f"{error_msg!r}").
PayloadLine_ReprError(tool_output) ==
  IF IsDict(tool_output)
  THEN IF ReportsFailure(tool_output)
       THEN FailureMarker \o PyRepr(DictGet(tool_output, <<"error">>)) \o <<"\n">>
       ELSE ParsedDictMarker \o Format(tool_output) \o <<"\n">>
  ELSE IF ~IsStr(tool_output)
       THEN UnexpectedMarker \o <<TypeName(tool_output), "\n", "Content:", " ">>
            \o Format(tool_output) \o <<"\n">>
       ELSE <<>>

\* Lines 105-123: the line added for the effective payload.
PayloadLine(tool_output) ==
  IF IsDict(tool_output)
  THEN IF ReportsFailure(tool_output)
       THEN FailureMarker \o Format(DictGet(tool_output, <<"error">>)) \o <<"\n">>
       ELSE ParsedDictMarker \o Format(tool_output) \o <<"\n">>
  ELSE IF ~IsStr(tool_output)
       THEN UnexpectedMarker \o <<TypeName(tool_output), "\n", "Content:", " ">>
            \o Format(tool_output) \o <<"\n">>
       ELSE <<>>

\* Line 128: summary.strip()
Summarize(content) ==
  Strip(SummaryHeader \o NonJsonLine(content) \o PayloadLine(EffectivePayload(content)))

\* SummaryId leaving the call id out.
SummaryId_Fixed(tool_call_id) == "ai_tool_summary_"

\* Line 127: f"ai_tool_summary_{last_message.tool_call_id}"
SummaryId(tool_call_id) == "ai_tool_summary_" \o tool_call_id

(***************************************************************************)
(* The tool registry, tools.py lines 287-365                               *)
(***************************************************************************)
AVAILABLE_STATS ==
  << <<"Volatility">>, <<"Volume">>, <<"Cumulative", " ", "Price">> >>

\* Line 338: stat_name.replace(" ", "_").replace("-", "_")
ToolFuncName(stat_name) ==
  [i \in 1..Len(stat_name) |->
     IF stat_name[i] \in {" ", "-"} THEN "_" ELSE stat_name[i]]

\* Lines 351-358: one tool per entry of AVAILABLE_STATS, in order.
TOOLS == [i \in 1..Len(AVAILABLE_STATS) |-> ToolFuncName(AVAILABLE_STATS[i])]

\* graph.py line 27
ALLOWED_TOOLS == TOOLS

ToolNames(tools) == {tools[i] : i \in 1..Len(tools)}

\* graph.py line 51: the tools bound to the model in call_model.
BoundTools == ToolNames(ALLOWED_TOOLS)

\* graph.py line 137: the tools the ToolNode can execute (its tools_by_name).
ToolNodeTools == ToolNames(ALLOWED_TOOLS)

(***************************************************************************)
(* Messages.  Every message is a record of the same shape; content is a    *)
(* Python value (a str, or a list of content blocks), tool_calls is        *)
(* empty except on an AIMessage that requests tools, and tool_call_id is   *)
(* "" except on a ToolMessage.                                             *)
(***************************************************************************)
HumanMessage(id, content) ==
  [type |-> "human", id |-> id, content |-> content, tool_calls |-> <<>>,
   tool_call_id |-> ""]
AIMessage(id, content, tool_calls) ==
  [type |-> "ai", id |-> id, content |-> content, tool_calls |-> tool_calls,
   tool_call_id |-> ""]
ToolMessage(id, content, tool_call_id) ==
  [type |-> "tool", id |-> id, content |-> content, tool_calls |-> <<>>,
   tool_call_id |-> tool_call_id]

\* The i-th id the framework generates for a message that has none (uuid4).
Uuid(i) == "uuid" \o ToString(i)

HasId(msgs, id) == \E i \in 1..Len(msgs) : msgs[i].id = id

\* add_messages appending every message of the update.
add_messages_AppendAll(left, right) == left \o right

\* State.messages is reduced with add_messages: a message whose id is already
\* in the history replaces that message in place, any other one is appended.
RECURSIVE add_messages(_, _)
add_messages(left, right) ==
  IF right = <<>> THEN left
  ELSE LET m == Head(right)
           merged == IF HasId(left, m.id)
                     THEN [i \in 1..Len(left) |-> IF left[i].id = m.id THEN m ELSE left[i]]
                     ELSE Append(left, m)
       IN add_messages(merged, Tail(right))

Last(msgs) == msgs[Len(msgs)]

(***************************************************************************)
(* The tool handler, tools.py lines 141-281 and 321-327.  What the login   *)
(* endpoint and the statistics endpoint answer is the environment's        *)
(* choice: `login` and `stats` name the answer.                            *)
(***************************************************************************)
LoginAnswers == {"ok", "http_error", "request_error", "bad_response"}
StatsAnswers ==
  {"ok", "ok_false", "ok_false_error", "http_error", "request_error",
   "missing_keys", "other_exception"}

\* get_quantics_auth, lines 166-197: the text of the RuntimeError it raises.
AuthErrorText(login) ==
  CASE login = "http_error" -> <<"Quantics login HTTP error:", " ", "401", " ", "-", " ", "denied">>
    [] login = "request_error" -> <<"Quantics login request error:", " ", "timeout">>
    [] login = "bad_response" ->
         \* the RuntimeError of line 189 is caught again at line 195
         <<"An unexpected error occurred during Quantics login:", " ",
           "Quantics login failed:", " ", "Login failed, unexpected response format.">>

\* QuanticsApiResponseModel(...).model_dump(), lines 125-130 and 327.
ApiResponse(success, charts_html, metadata, error) ==
  PyDict(<< [k |-> <<"success">>, v |-> success],
            [k |-> <<"charts_html">>, v |-> charts_html],
            [k |-> <<"metadata">>, v |-> metadata],
            [k |-> <<"error">>, v |-> error] >>)

FailureResponse(text) == ApiResponse(PyBool(FALSE), PyNone, PyNone, PyStr(text))

\* The upstream response body for the answers that carry one.
UpstreamMetadata(stats) ==
  IF stats = "ok"
  THEN PyDict(<< [k |-> <<"success">>, v |-> PyBool(TRUE)] >>)
  ELSE PyDict(<< [k |-> <<"rows">>, v |-> PyNum("0")] >>)
UpstreamError(stats) ==
  IF stats = "ok_false_error" THEN PyStr(<<"unknown", " ", "asset">>) ELSE PyNone

\* Lines 189-197: every failure of the login leaves get_quantics_auth as a
\* RuntimeError (the one of line 189 is caught and wrapped again at line 195).
AuthException(login) == "RuntimeError"

\* AuthErrorsCaught without RuntimeError.
AuthErrorsCaught_OnlyValueError == {"ValueError"}

\* Line 215: the exceptions of get_quantics_auth that are turned into a
\* failure response.
AuthErrorsCaught == {"ValueError", "RuntimeError"}

\* An exception leaving the handler.
Raise(exc, text) == [t |-> "raise", exc |-> exc, s |-> text]

\* _call_quantics_stat_api, lines 213-281, then model_dump (line 327).
dynamic_tool_func(login, stats) ==
  IF login # "ok"
  THEN IF AuthException(login) \in AuthErrorsCaught
       THEN FailureResponse(<<"Authentication failed:", " ">> \o AuthErrorText(login))
       ELSE Raise(AuthException(login), AuthErrorText(login))
  ELSE CASE stats = "http_error" ->
              FailureResponse(<<"API HTTP error", " ", "7", ":", " ", "upstream", "\n">>)
         [] stats = "request_error" ->
              FailureResponse(<<"API request error:", " ", "timeout">>)
         [] stats = "missing_keys" ->
              FailureResponse(<<"API response processing error:", " ",
                                "API response missing expected 'data' or 'metadata' keys.">>)
         [] stats = "other_exception" ->
              FailureResponse(<<"An unexpected error occurred:", " ", "boom">>)
         [] OTHER ->
              \* lines 259-264: success defaults to False when metadata has none
              LET md == UpstreamMetadata(stats)
                  success == IF \E i \in 1..Len(md.pairs) : md.pairs[i].k = <<"success">>
                             THEN DictGet(md, <<"success">>) ELSE PyBool(FALSE)
              IN ApiResponse(success, PyStr(<<"<div>", "chart", "</div>">>), md,
                             UpstreamError(stats))

(***************************************************************************)
(* QuanticsToolInput, tools.py lines 19-124: the argument schema of every  *)
(* tool.  input_data is a record of the six fields; the two dates and the  *)
(* bar period are integers, time_filters and trading_hours are Python      *)
(* values.  Accepts(input_data) is TRUE when model validation returns and  *)
(* FALSE when it raises ValidationError.                                   *)
(***************************************************************************)
\* Lines 19-23
AssetCode ==
  {"ES", "NQ", "DOW", "RUSS", "VIX", "EURUSD", "BP", "AUD", "JY", "GC", "HG", "SI",
   "PL", "CL", "NG", "CORN", "BTCUSDT", "ETHUSDT", "BNBUSDT", "XRPUSDT", "SOLUSDT"}

\* Lines 36-37, 43-44 and 50: ge and le of the integer fields.
MinDate == 20120101
MaxDate == 20241231
MinBarPeriod == 1

\* Lines 79, 84 and 89: the lengths the three lists must have.
MonthsLen == 12
DaysOfWeekLen == 5
DaysOfMonthLen == 31

\* An int inside a Python value (the values of trading_hours).
PyInt(i) == [t |-> "int", i |-> i]

\* The keys of a dict.
Keys(d) == {d.pairs[i].k : i \in 1..Len(d.pairs)}

\* Line 52, the annotation List[bool]: the field's own validation runs
\* before the validator of line 69 and converts each item to a bool; next
\* to True and False it takes 0, 1 and the texts "true" and "false".
AsBool(item) ==
  CASE item.t = "bool" -> [ok |-> TRUE, v |-> item]
    [] item.t = "num" /\ item.n \in {"0", "1"} -> [ok |-> TRUE, v |-> PyBool(item.n = "1")]
    [] item.t = "str" /\ item.s \in {<<"true">>, <<"false">>} ->
         [ok |-> TRUE, v |-> PyBool(item.s = <<"true">>)]
    [] OTHER -> [ok |-> FALSE, v |-> item]

AsBoolList(v) ==
  IF v.t = "list" /\ \A i \in 1..Len(v.items) : AsBool(v.items[i]).ok
  THEN [ok |-> TRUE, v |-> PyList([i \in 1..Len(v.items) |-> AsBool(v.items[i]).v])]
  ELSE [ok |-> FALSE, v |-> v]

\* Line 52, the annotation Dict[str, List[bool]].
AsTimeFilters(v) ==
  IF v.t = "dict" /\ \A i \in 1..Len(v.pairs) : AsBoolList(v.pairs[i].v).ok
  THEN [ok |-> TRUE,
        v |-> PyDict([i \in 1..Len(v.pairs) |->
                        [k |-> v.pairs[i].k, v |-> AsBoolList(v.pairs[i].v).v]])]
  ELSE [ok |-> FALSE, v |-> v]

\* Lines 79-82 and their two repetitions: a list of n items, all bool.
IsBoolList(v, n) ==
  /\ v.t = "list"
  /\ Len(v.items) = n
  /\ \A i \in 1..Len(v.items) : v.items[i].t = "bool"

\* Lines 69-94: TRUE when the validator returns v, FALSE when it raises.
validate_time_filters_structure(v) ==
  /\ v # PyNone
  /\ Keys(v) = {<<"months">>, <<"daysOfWeek">>, <<"daysOfMonth">>}
  /\ IsBoolList(DictGet(v, <<"months">>), MonthsLen)
  /\ IsBoolList(DictGet(v, <<"daysOfWeek">>), DaysOfWeekLen)
  /\ IsBoolList(DictGet(v, <<"daysOfMonth">>), DaysOfMonthLen)

\* Lines 52-55 and 69-94: the field time_filters.
ValidTimeFilters(v) ==
  AsTimeFilters(v).ok /\ validate_time_filters_structure(AsTimeFilters(v).v)

\* Lines 111-118: an int between lo and hi.
IsIntBetween(v, lo, hi) == v.t = "int" /\ lo <= v.i /\ v.i <= hi

\* Lines 56-59 and 96-124: the field trading_hours, a Dict[str, int].
validate_trading_hours_structure(v) ==
  /\ v.t = "dict"
  /\ \A i \in 1..Len(v.pairs) : v.pairs[i].v.t = "int"
  /\ Keys(v) = {<<"startHour">>, <<"startMin">>, <<"endHour">>, <<"endMin">>}
  /\ IsIntBetween(DictGet(v, <<"startHour">>), 0, 23)
  /\ IsIntBetween(DictGet(v, <<"startMin">>), 0, 59)
  /\ IsIntBetween(DictGet(v, <<"endHour">>), 0, 23)
  /\ IsIntBetween(DictGet(v, <<"endMin">>), 0, 59)

\* Lines 32-45: ge and le of a date field.
ValidDate(d) == MinDate <= d /\ d <= MaxDate

\* Lines 61-67: start_date is among `values` only when it passed its own
\* validation.
end_date_must_be_after_start_date(end_date, start_date) ==
  ~(ValidDate(start_date) /\ start_date # 0 /\ end_date < start_date)

\* QuanticsToolInput(**input_data) does not raise.
Accepts(input_data) ==
  /\ input_data.asset \in AssetCode
  /\ ValidDate(input_data.start_date)
  /\ ValidDate(input_data.end_date)
  /\ end_date_must_be_after_start_date(input_data.end_date, input_data.start_date)
  /\ input_data.bar_period >= MinBarPeriod
  /\ ValidTimeFilters(input_data.time_filters)
  /\ validate_trading_hours_structure(input_data.trading_hours)

(***************************************************************************)
(* The arguments a model may send with a tool call: one input that passes  *)
(* QuanticsToolInput and inputs that differ from it in one field.          *)
(***************************************************************************)
\* A list of n booleans (they alternate, starting with True).
BoolList(n) == PyList([i \in 1..n |-> PyBool(i % 2 = 1)])

\* The list xs with its first item replaced by v.
WithFirst(xs, v) == PyList([i \in 1..Len(xs.items) |-> IF i = 1 THEN v ELSE xs.items[i]])

TimeFilters(months, daysOfWeek, daysOfMonth) ==
  PyDict(<< [k |-> <<"months">>, v |-> months],
            [k |-> <<"daysOfWeek">>, v |-> daysOfWeek],
            [k |-> <<"daysOfMonth">>, v |-> daysOfMonth] >>)

\* Lists offered for a key that wants n booleans: the right one, one item
\* short, one item long, one with an item that is not a bool (0 and "true"
\* convert to a bool, 7 and "x" do not), and a value that is not a list.
ListChoices(n) ==
  {BoolList(n), BoolList(n - 1), BoolList(n + 1),
   WithFirst(BoolList(n), PyNum("0")), WithFirst(BoolList(n), PyNum("7")),
   WithFirst(BoolList(n), PyStr(<<"true">>)), WithFirst(BoolList(n), PyStr(<<"x">>)),
   PyStr(<<"all">>)}

TimeFilterChoices ==
  {TimeFilters(m, BoolList(DaysOfWeekLen), BoolList(DaysOfMonthLen)) : m \in ListChoices(MonthsLen)}
  \cup {TimeFilters(BoolList(MonthsLen), w, BoolList(DaysOfMonthLen)) :
          w \in ListChoices(DaysOfWeekLen)}
  \cup {TimeFilters(BoolList(MonthsLen), BoolList(DaysOfWeekLen), d) :
          d \in ListChoices(DaysOfMonthLen)}
  \cup {PyNone,
        PyList(<<PyBool(TRUE)>>),
        \* a key missing, a key too many
        PyDict(<< [k |-> <<"months">>, v |-> BoolList(MonthsLen)],
                  [k |-> <<"daysOfWeek">>, v |-> BoolList(DaysOfWeekLen)] >>),
        PyDict(TimeFilters(BoolList(MonthsLen), BoolList(DaysOfWeekLen),
                           BoolList(DaysOfMonthLen)).pairs
               \o << [k |-> <<"years">>, v |-> BoolList(1)] >>)}

TradingHours(startHour, startMin, endHour, endMin) ==
  PyDict(<< [k |-> <<"startHour">>, v |-> startHour],
            [k |-> <<"startMin">>, v |-> startMin],
            [k |-> <<"endHour">>, v |-> endHour],
            [k |-> <<"endMin">>, v |-> endMin] >>)

ValidInput ==
  [asset |-> "BTCUSDT", start_date |-> 20230101, end_date |-> 20231231, bar_period |-> 60,
   time_filters |-> TimeFilters(BoolList(MonthsLen), BoolList(DaysOfWeekLen),
                                BoolList(DaysOfMonthLen)),
   trading_hours |-> TradingHours(PyInt(9), PyInt(30), PyInt(16), PyInt(0))]

\* Inputs with a fault outside time_filters.
OtherFaults ==
  {[ValidInput EXCEPT !.asset = "DOGE"],
   [ValidInput EXCEPT !.start_date = MinDate - 1],
   [ValidInput EXCEPT !.end_date = MaxDate + 1],
   [ValidInput EXCEPT !.end_date = 20221231],
   [ValidInput EXCEPT !.bar_period = 0],
   [ValidInput EXCEPT !.trading_hours = TradingHours(PyInt(24), PyInt(0), PyInt(16), PyInt(0))],
   [ValidInput EXCEPT !.trading_hours = TradingHours(PyInt(9), PyInt(60), PyInt(16), PyInt(0))],
   [ValidInput EXCEPT !.trading_hours = PyDict(<<[k |-> <<"startHour">>, v |-> PyInt(9)]>>)]}

\* Dates offered for start_date and end_date: the ends of the range and
\* their neighbours, days inside the range, and integers inside the range
\* that name no day (a day 0, a 30th of February, a month 13, a 29th of
\* February in a year that has none and in one that has).
DateChoices ==
  {MinDate - 1, MinDate, 20230100, 20230101, 20230229, 20230230, 20231231, 20231301,
   20240229, MaxDate, MaxDate + 1}

\* Inputs that differ from the valid one in the dates and the bar period.
DateInputs ==
  {[ValidInput EXCEPT !.start_date = s, !.end_date = e, !.bar_period = b] :
     s \in DateChoices, e \in DateChoices, b \in {MinBarPeriod - 1, MinBarPeriod}}

ToolInputs ==
  {[ValidInput EXCEPT !.time_filters = tf] : tf \in TimeFilterChoices}
  \cup OtherFaults
  \cup DateInputs
  \cup {[f EXCEPT !.time_filters = TimeFilters(BoolList(MonthsLen - 1), BoolList(DaysOfWeekLen),
                                               BoolList(DaysOfMonthLen))] : f \in OtherFaults}

(***************************************************************************)
(* ToolNode(ALLOWED_TOOLS, handle_tool_errors=True), graph.py line 137:    *)
(* what one tool call of the batch yields.  `out` is the environment's     *)
(* part: whether the arguments pass QuanticsToolInput, and the answers of  *)
(* the two endpoints.                                                      *)
(***************************************************************************)
RECURSIVE JoinNames(_)
JoinNames(names) ==
  IF names = <<>> THEN <<>>
  ELSE Head(names) \o (IF Len(names) > 1 THEN <<",", " ">> \o JoinNames(Tail(names)) ELSE <<>>)

\* HandlerRuns without the lookup in tools_by_name.
HandlerRuns_AnyName(call, out) == out.valid

\* The handler runs only for a registered name with valid arguments.
HandlerRuns(call, out) == call.name \in ToolNodeTools /\ out.valid

ToolContent(call, out) ==
  IF call.name \notin ToolNodeTools
  THEN <<"Error:", " ">> \o call.name \o <<" ", "is not a valid tool, try one of", " ", "[">>
       \o JoinNames(ALLOWED_TOOLS) \o <<"]", ".">>
  ELSE IF ~out.valid
  THEN <<"Error:", " ", "ValidationError", "\n", " ", "Please fix your mistakes.">>
  ELSE IF dynamic_tool_func(out.login, out.stats).t = "raise"
  THEN <<"Error:", " ", dynamic_tool_func(out.login, out.stats).exc, "\n", " ",
         "Please fix your mistakes.">>
  ELSE JsonDumps(dynamic_tool_func(out.login, out.stats))

(***************************************************************************)
(* The run of the graph, graph.py lines 33-183                             *)
(***************************************************************************)
\* Bounds of the model.
MaxRecursionLimit == 8
MaxBatch == 2
MaxToolCalls == 3
MaxInvocations == 2

VARIABLES
  messages,         \* State.messages
  pc,               \* the node to run next, "__end__" or "error"
  step,             \* the superstep the next node runs in
  recursion_limit,  \* config["recursion_limit"]
  uuids,            \* how many message ids the framework has generated
  failure,          \* the exception that ended the run, or "none"
  lastNode,         \* the node that ran last
  call,             \* the latest call_model: the model's reply and what it saw
  batch,            \* the tool calls the latest tools node dispatched
  executed,         \* the names of the tools whose handler has run
  modelCalls,       \* how many times the model has been invoked
  reuse,            \* whether the model service may repeat an id it gave before
  finished,         \* the order in which the calls of the latest batch completed
  stA, stB,         \* two states handed to process_tool_results on their own
  outA, outB,       \* what process_tool_results returned for each
  tool,             \* the invocations of a tool by the ToolNode, each with its locals
  wire,             \* the requests sent to the login and statistics endpoints
  checked,          \* the latest arguments validated and the verdict
  configs,          \* the statistic configurations the population loop runs over
  loaded,           \* how many of them the loop has gone through
  registry          \* TOOLS as populated so far

runVars ==
  <<messages, pc, step, recursion_limit, uuids, failure, lastNode, call, batch,
    executed, modelCalls, reuse, finished>>
unitVars == <<stA, stB, outA, outB>>
toolVars == <<tool, wire, checked>>
loadVars == <<configs, loaded, registry>>
vars == <<runVars, unitVars, toolVars, loadVars>>

Apology ==
  PyStr(<<"Sorry, I could not find an answer to your question in the specified number of steps.">>)

\* The ids the model service gives: the i-th reply, the i-th tool call.
ReplyId(i) == "run-" \o ToString(i)
CallId(i) == "call_" \o ToString(i)
\* What the model may name in a tool call: a registered tool and a tool that
\* is not registered.
UnregisteredName == <<"get_weather">>
RequestedNames == {TOOLS[3], UnregisteredName}

Min(a, b) == IF a < b THEN a ELSE b

\* The tool messages committed so far (each took one generated id; the
\* first generated id went to the input message).
ToolCallsSoFar == uuids - 1

\* The model service gives every reply and every tool call an id of its
\* own; with `reuse` it may also repeat the first one it gave in the run.
ReplyIdChoices ==
  IF reuse THEN {ReplyId(1), ReplyId(modelCalls + 1)} ELSE {ReplyId(modelCalls + 1)}
CallIdChoices(i) ==
  IF reuse THEN {CallId(1), CallId(ToolCallsSoFar + i)} ELSE {CallId(ToolCallsSoFar + i)}

\* The batches of n tool calls the model may request now.
Batches(n) ==
  {b \in [1..n -> [id : {CallId(j) : j \in 1..(ToolCallsSoFar + n)}, name : RequestedNames]] :
     \A i \in 1..n : b[i].id \in CallIdChoices(i)}

\* The replies the model service may give now.
ModelReplies ==
  {AIMessage(id, PyStr(<<"answer">>), <<>>) : id \in ReplyIdChoices}
  \cup {AIMessage(id, PyStr(<<>>), b) :
          id \in ReplyIdChoices,
          b \in UNION {Batches(n) : n \in 1..Min(MaxBatch, MaxToolCalls - ToolCallsSoFar)}}

\* What the endpoints and the argument validation may answer to one call.
CallOutcomes ==
  { [valid |-> FALSE, login |-> "ok", stats |-> "ok"],
    [valid |-> TRUE, login |-> "http_error", stats |-> "ok"],
    [valid |-> TRUE, login |-> "ok", stats |-> "http_error"],
    [valid |-> TRUE, login |-> "ok", stats |-> "ok_false"],
    [valid |-> TRUE, login |-> "ok", stats |-> "ok"] }

NoState == [messages |-> <<>>, is_last_step |-> FALSE]
NotRun == [ran |-> FALSE, update |-> <<>>]

NoCall == [ran |-> FALSE, reply |-> AIMessage("", PyStr(<<>>), <<>>), is_last_step |-> FALSE,
           bound |-> {}, route |-> "none"]

\* The locals of one tool invocation before the ToolNode dispatches it, and
\* the state with no invocation going on.
NoCred == [uid |-> "", token |-> ""]
Idle ==
  [pc |-> "idle", name |-> <<>>, valid |-> FALSE, login |-> "none", stats |-> "none",
   cred |-> NoCred, result |-> PyNone, content |-> <<>>]
NoCheck == [done |-> FALSE, input_data |-> ValidInput, accepted |-> FALSE]
ToolsIdle ==
  /\ tool = [i \in 1..MaxInvocations |-> Idle]
  /\ wire = <<>>
  /\ checked = NoCheck

\* The module tools.py has been imported: the population loop of lines
\* 354-361 has gone through AVAILABLE_STATS and TOOLS holds its tools.
Imported ==
  /\ configs = AVAILABLE_STATS
  /\ loaded = Len(AVAILABLE_STATS)
  /\ registry = TOOLS

\* The run starts with the input (one user message) applied and the first
\* node, call_model, scheduled (line 142).  Supersteps are counted from the
\* one that runs __start__ (0), so call_model first runs in superstep 1.
InitRun ==
  /\ recursion_limit \in 1..MaxRecursionLimit
  /\ messages = <<HumanMessage(Uuid(0), PyStr(<<"What is BTC doing?">>))>>
  /\ pc = "call_model"
  /\ step = 1
  /\ uuids = 1
  /\ failure = "none"
  /\ lastNode = "__start__"
  /\ call = NoCall
  /\ batch = <<>>
  /\ executed = {}
  /\ modelCalls = 0
  /\ finished = <<>>
  /\ ToolsIdle
  /\ Imported
  /\ stA = NoState
  /\ stB = NoState
  /\ outA = NotRun
  /\ outB = NotRun

\* The model service gives unique ids (what the chat model providers do).
Init == InitRun /\ reuse = FALSE

\* The model service may repeat ids (runs with the largest recursion limit).
InitReuse == InitRun /\ recursion_limit = MaxRecursionLimit /\ reuse = TRUE

\* State.is_last_step (the managed value IsLastStep): the superstep is the
\* last one the recursion limit lets complete.
IsLastStep == step = recursion_limit - 1

\* After a node's writes are applied the step counter advances; past the
\* recursion limit the run raises GraphRecursionError, otherwise `next` is
\* scheduled.
OutOfSteps == step + 1 > recursion_limit

\* route_model_output looking for tool calls in any message of the history.
route_model_output_AnyMessage(msgs) ==
  IF \E i \in 1..Len(msgs) : msgs[i].tool_calls # <<>> THEN "tools" ELSE "__end__"

\* Lines 145-158.  The last message is an AIMessage or, with none, the
\* attribute access raises.
route_model_output(msgs) ==
  IF Last(msgs).type = "tool" THEN "AttributeError"
  ELSE IF Last(msgs).tool_calls # <<>> THEN "tools" ELSE "__end__"

\* CallModelUpdate without the check of line 67.
CallModelUpdate_NoLastStepCheck(is_last_step, response) == <<response>>

\* Lines 66-78: what call_model returns for the model's reply.
CallModelUpdate(is_last_step, response) ==
  IF is_last_step /\ response.tool_calls # <<>>
  THEN <<AIMessage(response.id, Apology, <<>>)>>
  ELSE <<response>>

\* call_model (lines 33-78) followed by the conditional edge (lines 162-167).
CallModel(response) ==
  /\ pc = "call_model"
  /\ LET update == CallModelUpdate(IsLastStep, response)
         merged == add_messages(messages, update)
         next == route_model_output(merged)
     IN /\ call' = [ran |-> TRUE, reply |-> response, is_last_step |-> IsLastStep,
                    bound |-> BoundTools, route |-> next]
        /\ lastNode' = "call_model"
        /\ modelCalls' = modelCalls + 1
        /\ IF next = "AttributeError"
           THEN /\ pc' = "error"
                /\ failure' = "AttributeError"
                /\ UNCHANGED <<messages, step>>
           ELSE /\ messages' = merged
                /\ step' = step + 1
                /\ pc' = IF OutOfSteps THEN "error" ELSE next
                /\ failure' = IF OutOfSteps THEN "GraphRecursionError" ELSE "none"
  /\ UNCHANGED <<recursion_limit, uuids, batch, executed, reuse, finished, unitVars, toolVars, loadVars>>

\* model.ainvoke raises (lines 59-64): nothing catches it.
ModelFails ==
  /\ pc = "call_model"
  /\ pc' = "error"
  /\ failure' = "ModelError"
  /\ lastNode' = "call_model"
  /\ call' = [ran |-> TRUE, reply |-> NoCall.reply, is_last_step |-> IsLastStep,
              bound |-> BoundTools, route |-> "none"]
  /\ modelCalls' = modelCalls + 1
  /\ UNCHANGED <<messages, step, recursion_limit, uuids, batch, executed, reuse, finished,
                 unitVars, toolVars, loadVars>>

\* The ToolMessages of a batch, in call order; each gets a generated id.
ToolMessages(calls, outs, first_uuid) ==
  [i \in 1..Len(calls) |->
     ToolMessage(Uuid(first_uuid + i - 1), PyStr(ToolContent(calls[i], outs[i])),
                 calls[i].id)]

\* The orders in which n calls dispatched together may complete.
Orders(n) == {o \in [1..n -> 1..n] : \A i, j \in 1..n : o[i] = o[j] => i = j}

\* Gather handing the results back in the order the calls completed in.
Gather_CompletionOrder(results, order) == [i \in 1..Len(results) |-> results[order[i]]]

\* The ToolNode awaits all the calls of the batch together (asyncio.gather):
\* the results come back in the order of the calls, whatever order they
\* completed in.
Gather(results, order) == results

\* The tools node (line 137) and the edge to process_tool_results (line 173).
Tools(outs, order) ==
  /\ pc = "tools"
  /\ LET calls == Last(messages).tool_calls IN
     /\ outs \in [1..Len(calls) -> CallOutcomes]
     /\ order \in Orders(Len(calls))
     /\ messages' = add_messages(messages, Gather(ToolMessages(calls, outs, uuids), order))
     /\ finished' = order
     /\ uuids' = uuids + Len(calls)
     /\ batch' = calls
     /\ executed' = executed \cup
                      {calls[i].name : i \in {j \in 1..Len(calls) : HandlerRuns(calls[j], outs[j])}}
  /\ lastNode' = "tools"
  /\ step' = step + 1
  /\ pc' = IF OutOfSteps THEN "error" ELSE "process_tool_results"
  /\ failure' = IF OutOfSteps THEN "GraphRecursionError" ELSE "none"
  /\ UNCHANGED <<recursion_limit, call, modelCalls, reuse, unitVars, toolVars, loadVars>>

\* ProcessUpdate giving the summary the id of the ToolMessage, so that the
\* summary replaces it in the history.
ProcessUpdate_ToolMessageId(state) ==
  LET last_message == Last(state.messages) IN
  IF last_message.type # "tool" THEN <<>>
  ELSE <<AIMessage(last_message.id, PyStr(Summarize(last_message.content)), <<>>)>>

\* ProcessUpdate reading the first ToolMessage of the history, not the last
\* message.
ProcessUpdate_FirstToolMessage(state) ==
  LET tools == {i \in 1..Len(state.messages) : state.messages[i].type = "tool"}
      first == state.messages[CHOOSE i \in tools : \A j \in tools : i <= j]
  IN IF tools = {} THEN <<>>
     ELSE <<AIMessage(SummaryId(first.tool_call_id), PyStr(Summarize(first.content)), <<>>)>>

\* ProcessUpdate without the safeguard of lines 84-88.
ProcessUpdate_NoSafeguard(state) ==
  LET last_message == Last(state.messages) IN
  <<AIMessage(SummaryId(last_message.tool_call_id), PyStr(Summarize(last_message.content)),
              <<>>)>>

\* Lines 82-128: the update process_tool_results returns for a State
\* [messages, is_last_step].
ProcessUpdate(state) ==
  LET last_message == Last(state.messages) IN
  IF last_message.type # "tool" THEN <<>>
  ELSE <<AIMessage(SummaryId(last_message.tool_call_id),
                   PyStr(Summarize(last_message.content)), <<>>)>>

\* process_tool_results and the edge back to call_model (line 176).
ProcessToolResults ==
  /\ pc = "process_tool_results"
  /\ messages' = add_messages(messages,
                    ProcessUpdate([messages |-> messages, is_last_step |-> IsLastStep]))
  /\ lastNode' = "process_tool_results"
  /\ step' = step + 1
  /\ pc' = IF OutOfSteps THEN "error" ELSE "call_model"
  /\ failure' = IF OutOfSteps THEN "GraphRecursionError" ELSE "none"
  /\ UNCHANGED <<recursion_limit, uuids, call, batch, executed, modelCalls, reuse, finished,
                 unitVars, toolVars, loadVars>>

Next ==
  \/ \E response \in ModelReplies : CallModel(response)
  \/ ModelFails
  \/ \E k \in 1..MaxBatch : \E outs \in [1..k -> CallOutcomes], order \in Orders(k) :
       Tools(outs, order)
  \/ ProcessToolResults

Spec == Init /\ [][Next]_vars

SpecReuse == InitReuse /\ [][Next]_vars

(***************************************************************************)
(* Properties of the run                                                   *)
(***************************************************************************)
IsSummary(m) == m.type = "ai" /\ m.id \in {SummaryId(CallId(j)) : j \in 1..uuids}

\* The spec's name for the kind of a message of the history.
Kind(m) ==
  CASE m.type = "human" -> "User"
    [] m.type = "tool" -> "ToolResult"
    [] m.type = "ai" /\ m.tool_calls # <<>> -> "AssistantToolRequest"
    [] IsSummary(m) -> "ToolSummary"
    [] OTHER -> "AssistantText"

Kinds(msgs) == [i \in 1..Len(msgs) |-> Kind(msgs[i])]

\* The messages of the history that follow its last ToolMessage.
AfterLastTool(msgs) ==
  LET tools == {i \in 1..Len(msgs) : msgs[i].type = "tool"} IN
  IF tools = {} THEN msgs
  ELSE SubSeq(msgs, (CHOOSE i \in tools : \A j \in tools : j <= i) + 1, Len(msgs))

\* C1 (as claimed): once tools and process_tool_results have run on a batch
\* of N calls, exactly N summaries have been appended, the i-th one carrying
\* the summary id of the i-th call (stated of the runs that go on to the
\* next model call).
C1_OneSummaryPerCall ==
  (lastNode = "process_tool_results" /\ pc = "call_model") =>
    /\ Len(AfterLastTool(messages)) = Len(batch)
    /\ \A i \in 1..Len(batch) :
         /\ IsSummary(AfterLastTool(messages)[i])
         /\ AfterLastTool(messages)[i].id = SummaryId(batch[i].id)

\* The latest call_model ran on the last step and the model asked for tools.
ForcedTermination ==
  lastNode = "call_model" /\ call.is_last_step /\ call.reply.tool_calls # <<>>

\* C2: when call_model runs with is_last_step true and the reply requests a
\* tool, the message committed is the apology with no tool calls, the reply
\* itself is not in the history, the run is at __end__ and no node (so no
\* tool) can run any more.
C2_ForcedTermination ==
  ForcedTermination =>
    /\ Last(messages) = AIMessage(call.reply.id, Apology, <<>>)
    /\ \A i \in 1..Len(messages) : messages[i] # call.reply
    /\ pc = "__end__"
    /\ failure = "none"
    /\ ~ENABLED Next

C2_Witness ==
  /\ ForcedTermination
  /\ pc = "__end__"
  /\ Len(messages) > 2
  /\ Last(messages).content = Apology

\* The model was invoked twice: it first asked for one registered tool,
\* then answered in plain text.
OneToolThenText ==
  /\ modelCalls = 2
  /\ lastNode = "call_model"
  /\ failure # "ModelError"
  /\ call.reply.tool_calls = <<>>
  /\ Len(messages) >= 2
  /\ Len(messages[2].tool_calls) = 1
  /\ messages[2].tool_calls[1].name \in BoundTools

\* C3 (as claimed): such a run ends with exactly 4 messages: User,
\* AssistantToolRequest, ToolSummary, AssistantText.
C3_FourMessages ==
  OneToolThenText =>
    /\ pc = "__end__"
    /\ Kinds(messages) = <<"User", "AssistantToolRequest", "ToolSummary", "AssistantText">>

\* C3 (amended): with a recursion limit of at least 5 such a run ends with
\* exactly 5 messages: User, AssistantToolRequest, ToolResult, ToolSummary,
\* AssistantText; the ToolMessage stays in the history before its summary.
C3_FiveMessages ==
  (OneToolThenText /\ recursion_limit >= 5) =>
    /\ pc = "__end__"
    /\ Kinds(messages) =
         <<"User", "AssistantToolRequest", "ToolResult", "ToolSummary", "AssistantText">>

C3_Witness ==
  /\ OneToolThenText
  /\ recursion_limit >= 5
  /\ pc = "__end__"
  /\ Len(messages) = 5

\* C7 (as claimed): a run in which every model call returns goes on until
\* it reaches __end__; it never ends by running over the step budget in
\* the tools or the summary step.
C7_RunEndsAtTerminal ==
  lastNode \in {"tools", "process_tool_results"} =>
    /\ pc # "error"
    /\ failure # "GraphRecursionError"

\* C8 (as claimed): whatever the tool calls of a batch yield, the tools node
\* commits one tool result per call and goes on to process_tool_results,
\* which appends the summary of every call, and the next node is call_model.
C8_ToolErrorsAbsorbed ==
  /\ lastNode = "tools" =>
       /\ pc = "process_tool_results"
       /\ Len(messages) >= Len(batch)
       /\ \A i \in 1..Len(batch) :
            LET m == messages[Len(messages) - Len(batch) + i] IN
            m.type = "tool" /\ m.tool_call_id = batch[i].id
  /\ lastNode = "process_tool_results" =>
       /\ pc = "call_model"
       /\ \A i \in 1..Len(batch) :
            \E k \in 1..Len(messages) :
              messages[k].type = "ai" /\ messages[k].id = SummaryId(batch[i].id)

\* C9 (as claimed): no step other than the model call ends the run with an
\* error, and when the model call fails the run stops and that step has
\* appended nothing: the history ends with what the previous node left.
C9_OnlyModelFailureIsFatal ==
  /\ pc = "error" => lastNode = "call_model"
  /\ failure = "ModelError" =>
       /\ pc = "error"
       /\ ~ENABLED Next
       /\ Last(messages).type = "human" \/ IsSummary(Last(messages))

\* C10: every model invocation is offered exactly the registered tools, the
\* set the tools node executes from, and only registered tools are executed.
C10_AllowList ==
  /\ call.ran => call.bound = ToolNames(TOOLS)
  /\ call.ran => call.bound = ToolNodeTools
  /\ executed \subseteq ToolNames(TOOLS)

\* The model asked for an unregistered tool next to a registered one, and
\* the tools node has run the batch.
C10_Witness ==
  /\ lastNode = "tools"
  /\ \E i \in 1..Len(batch) : batch[i].name \notin ToolNames(TOOLS)
  /\ executed # {}

(***************************************************************************)
(* process_tool_results on its own: two states with the same last message, *)
(* a ToolMessage whose content ranges over bounded sets of contents, and   *)
(* different histories before it.                                          *)
(***************************************************************************)
\* Bounds of the contents.
MaxTextLen == 3
MaxErrorLen == 2

TextAtoms == {"hello", " ", "\n", Quote, "{", "}", "[", "]", "7"}
ErrorAtoms == {"X", " ", "\n", Quote}

SeqsUpTo(S, n) == UNION {[1..k -> S] : k \in 0..n}

\* Plain texts: some parse as JSON ("7", "[7]", "{}"), most do not.
Texts == SeqsUpTo(TextAtoms, MaxTextLen)

ErrorTexts == SeqsUpTo(ErrorAtoms, MaxErrorLen) \ {<<>>}

\* Mappings with and without the success and error keys of
\* QuanticsApiResponseModel.
Absent == [t |-> "absent"]
SuccessValues == {Absent, PyBool(FALSE), PyBool(TRUE), PyNone, PyNum("0")}
ErrorValues ==
  {Absent, PyNone, PyStr(<<>>), PyNum("0"), PyNum("7"), PyList(<<PyStr(<<"X">>)>>)}
  \cup {PyStr(x) : x \in ErrorTexts}

Pair(k, v) == IF v = Absent THEN <<>> ELSE <<[k |-> <<k>>, v |-> v]>>

Payloads ==
  {PyDict(Pair("success", sv) \o m \o Pair("error", ev)) :
     sv \in SuccessValues, ev \in ErrorValues,
     m \in {<<>>, Pair("metadata", PyDict(Pair("success", PyBool(FALSE))))}}

OtherValues ==
  {PyList(<<>>), PyList(<<PyStr(<<"hello">>), PyNum("7")>>), PyStr(<<"hello", Quote>>),
   PyBool(FALSE), PyNone}

\* The contents of the ToolMessage: a text, the JSON text of a value, a
\* mapping or a list of content blocks.
Contents ==
  {PyStr(x) : x \in Texts}
  \cup {PyStr(JsonDumps(v)) : v \in Payloads \cup OtherValues}
  \cup Payloads
  \cup {v \in OtherValues : v.t = "list"}

\* Histories before the ToolMessage.
Prefixes ==
  LET user == HumanMessage(Uuid(0), PyStr(<<"What is BTC doing?">>))
      req1 == AIMessage(ReplyId(1), PyStr(<<>>), <<[id |-> CallId(1), name |-> TOOLS[1]]>>)
      req2 == AIMessage(ReplyId(1), PyStr(<<>>),
                        <<[id |-> CallId(3), name |-> TOOLS[2]],
                          [id |-> CallId(1), name |-> TOOLS[1]]>>)
      other == ToolMessage(Uuid(1), PyStr(JsonDumps(FailureResponse(<<"other">>))), CallId(3))
  IN {<<user, req1>>, <<user, req2, other>>,
      <<user, req2, other, AIMessage(SummaryId(CallId(3)), PyStr(<<"old">>), <<>>), req1>>}

InitUnit ==
  /\ recursion_limit = 1
  /\ messages = <<>>
  /\ pc = "off"
  /\ step = 0
  /\ uuids = 0
  /\ failure = "none"
  /\ lastNode = "__start__"
  /\ call = NoCall
  /\ batch = <<>>
  /\ executed = {}
  /\ modelCalls = 0
  /\ reuse = FALSE
  /\ finished = <<>>
  /\ ToolsIdle
  /\ Imported
  /\ \E c \in Contents, p \in Prefixes, l \in BOOLEAN :
       LET m == ToolMessage(Uuid(2), c, CallId(1)) IN
       /\ stA = [messages |-> <<HumanMessage(Uuid(0), PyStr(<<"What is BTC doing?">>)),
                                AIMessage(ReplyId(1), PyStr(<<>>),
                                          <<[id |-> CallId(1), name |-> TOOLS[1]]>>), m>>,
                 is_last_step |-> FALSE]
       /\ stB = [messages |-> Append(p, m), is_last_step |-> l]
  /\ outA = NotRun
  /\ outB = NotRun

ProcessA ==
  /\ pc = "off"
  /\ ~outA.ran
  /\ outA' = [ran |-> TRUE, update |-> ProcessUpdate(stA)]
  /\ UNCHANGED <<runVars, stA, stB, outB, toolVars, loadVars>>

ProcessB ==
  /\ pc = "off"
  /\ ~outB.ran
  /\ outB' = [ran |-> TRUE, update |-> ProcessUpdate(stB)]
  /\ UNCHANGED <<runVars, stA, stB, outA, toolVars, loadVars>>

NextUnit == ProcessA \/ ProcessB

SpecUnit == InitUnit /\ [][NextUnit]_vars

(***************************************************************************)
(* Properties of process_tool_results                                      *)
(***************************************************************************)
\* The content of the ToolMessage both states end with.
ContentA == Last(stA.messages).content

\* The text of the summary message returned for state A.
SummaryA == outA.update[1].content.s

\* The payload of a content: the content itself, or what a str content
\* parses to as JSON.
PayloadOf(content) ==
  IF IsStr(content) THEN JsonLoads(content.s) ELSE ParseOk(content, 0)

\* The payload is a mapping with success == false and error == x.
IsFailureWith(content, x) ==
  /\ PayloadOf(content).ok
  /\ IsDict(PayloadOf(content).v)
  /\ DictGet(PayloadOf(content).v, <<"success">>) = PyBool(FALSE)
  /\ DictGet(PayloadOf(content).v, <<"error">>) = PyStr(x)

\* C4 (as claimed): a payload with success == false and a non-empty error
\* text X is summarized as exactly "Tool reported failure: X".
C4_FailureLineOnly ==
  outA.ran =>
    \A x \in ErrorTexts :
      IsFailureWith(ContentA, x) => SummaryA = <<"Tool reported failure:", " ">> \o x

\* C4 (amended): it is summarized as the header line, then
\* "Tool reported failure: X", with trailing whitespace removed.
C4_HeaderThenFailureLine ==
  outA.ran =>
    \A x \in ErrorTexts :
      IsFailureWith(ContentA, x) =>
        SummaryA =
          RStrip(<<"Tool execution summary:", "\n", "Tool reported failure:", " ">> \o x)

\* A JSON text whose error text holds a quote and ends with a newline.
C4_Witness ==
  /\ outA.ran
  /\ IsStr(ContentA)
  /\ IsFailureWith(ContentA, <<Quote, "\n">>)
  /\ SummaryA = <<"Tool execution summary:", "\n", "Tool reported failure:", " ", Quote>>

\* The content is a str that json.loads rejects.
IsNonJson(content) == IsStr(content) /\ ~JsonLoads(content.s).ok

\* What follows the first occurrence of atom a in s (empty without one).
After(s, a) ==
  LET at == {i \in 1..Len(s) : s[i] = a} IN
  IF at = {} THEN <<>>
  ELSE SubSeq(s, (CHOOSE i \in at : \A j \in at : i <= j) + 1, Len(s))

NoOtherLine(summary) ==
  /\ ~Contains(summary, <<"Tool reported failure:">>)
  /\ ~Contains(summary, <<"Tool Result (parsed dict):">>)

\* C5 (as claimed): for a str content that is not JSON the summary holds the
\* non-JSON marker followed by the original string verbatim, and neither a
\* failure line nor a parsed-dict line.
C5_NonJsonVerbatim ==
  (outA.ran /\ IsNonJson(ContentA)) =>
    /\ Contains(SummaryA, <<"Received non-JSON string output:">>)
    /\ Contains(After(SummaryA, "Received non-JSON string output:"), ContentA.s)
    /\ NoOtherLine(SummaryA)

\* C5 (amended): the summary is the header line, the non-JSON marker and the
\* original string, with trailing whitespace removed, and nothing else.
C5_NonJsonUpToTrailingSpace ==
  (outA.ran /\ IsNonJson(ContentA)) =>
    /\ SummaryA =
         RStrip(<<"Tool execution summary:", "\n", "Received non-JSON string output:", " ">>
                \o ContentA.s)
    /\ NoOtherLine(SummaryA)

\* A text that opens like JSON, does not parse, and ends with a newline.
C5_Witness ==
  /\ outA.ran
  /\ ContentA = PyStr(<<"{", "hello", "\n">>)
  /\ SummaryA = <<"Tool execution summary:", "\n", "Received non-JSON string output:",
                  " ", "{", "hello">>

\* C6: two states whose last message is the same tool result get the same
\* update (summary text and summary id) from process_tool_results, whatever
\* the messages before it and whatever is_last_step.
C6_SameResultSameSummary ==
  (outA.ran /\ outB.ran) =>
    /\ outA.update = outB.update
    /\ Len(outA.update) = 1
    /\ outA.update[1].id = SummaryId(Last(stA.messages).tool_call_id)

C6_Witness ==
  /\ outA.ran
  /\ outB.ran
  /\ Last(stA.messages) = Last(stB.messages)
  /\ Len(stB.messages) > Len(stA.messages)
  /\ stB.is_last_step # stA.is_last_step
  /\ IsFailureWith(ContentA, <<"X">>)

(***************************************************************************)
(* Tool invocations on their own: the ToolNode dispatches the calls of a   *)
(* batch together, and each one goes through the validation of its         *)
(* arguments, the login and the statistics request, interleaved with the   *)
(* others.                                                                 *)
(***************************************************************************)
\* The arguments of the i-th call: any of ToolInputs for the first call, a
\* valid and an invalid input for the later ones.
Inputs(i) ==
  IF i = 1 THEN ToolInputs ELSE {ValidInput, [ValidInput EXCEPT !.bar_period = 0]}

\* The successful logins among the requests sent.
Logins(w) == {k \in 1..Len(w) : w[k].req = "login" /\ w[k].answer = "ok"}

\* Lines 180-186: what the login endpoint returns on success, the uid of
\* the account and a token of its own for every login.
Credential(k) == [uid |-> "uid-1", token |-> "token-" \o ToString(k)]

\* NeedsLogin with the in-memory cache the docstring of line 144 describes.
NeedsLogin_Cached(w) == Logins(w) = {}

\* Lines 153-154: no cache is consulted, every call of get_quantics_auth
\* sends a login request.
NeedsLogin(w) == TRUE

\* The invocation ends: the ToolNode makes the content of its ToolMessage.
Finish(t) ==
  [t EXCEPT !.pc = "done",
            !.result = IF t.name \in ToolNodeTools /\ t.valid
                       THEN dynamic_tool_func(t.login, t.stats) ELSE PyNone,
            !.content = ToolContent([name |-> t.name],
                                    [valid |-> t.valid, login |-> t.login, stats |-> t.stats])]

InitTool ==
  /\ recursion_limit = 1
  /\ messages = <<>>
  /\ pc = "off"
  /\ step = 0
  /\ uuids = 0
  /\ failure = "none"
  /\ lastNode = "__start__"
  /\ call = NoCall
  /\ batch = <<>>
  /\ executed = {}
  /\ modelCalls = 0
  /\ reuse = FALSE
  /\ finished = <<>>
  /\ stA = NoState
  /\ stB = NoState
  /\ outA = NotRun
  /\ outB = NotRun
  /\ ToolsIdle
  /\ Imported

\* The ToolNode looks the name up and validates the arguments against
\* QuanticsToolInput (tools.py line 332); only then the handler is entered.
Invoke(i, name, input_data) ==
  /\ pc = "off"
  /\ tool[i].pc = "idle"
  /\ \A j \in 1..(i - 1) : tool[j].pc # "idle"
  /\ IF name \notin ToolNodeTools
     THEN /\ tool' = [tool EXCEPT ![i] = Finish([Idle EXCEPT !.name = name])]
          /\ UNCHANGED checked
     ELSE /\ checked' = [done |-> TRUE, input_data |-> input_data,
                         accepted |-> Accepts(input_data)]
          /\ tool' = [tool EXCEPT ![i] =
                        IF Accepts(input_data)
                        THEN [Idle EXCEPT !.name = name, !.valid = TRUE, !.pc = "login"]
                        ELSE Finish([Idle EXCEPT !.name = name])]
  /\ UNCHANGED <<wire, runVars, unitVars, loadVars>>

\* get_quantics_auth, lines 141-197, called at line 214.
Login(i, answer) ==
  /\ pc = "off"
  /\ tool[i].pc = "login"
  /\ IF NeedsLogin(wire)
     THEN LET cred == IF answer = "ok" THEN Credential(Cardinality(Logins(wire)) + 1)
                      ELSE NoCred
          IN /\ wire' = Append(wire, [req |-> "login", inv |-> i, cred |-> cred,
                                      answer |-> answer])
             /\ tool' = [tool EXCEPT ![i] =
                           IF answer = "ok"
                           THEN [tool[i] EXCEPT !.pc = "stats", !.login = "ok", !.cred = cred]
                           ELSE Finish([tool[i] EXCEPT !.login = answer])]
     ELSE /\ answer = "ok"
          /\ UNCHANGED wire
          /\ tool' = [tool EXCEPT ![i] =
                        [tool[i] EXCEPT !.pc = "stats", !.login = "ok",
                                        !.cred = Credential(Cardinality(Logins(wire)))]]
  /\ UNCHANGED <<checked, runVars, unitVars, loadVars>>

\* The statistics request, lines 219-281: it carries the user id and the
\* token of the local variables of this invocation.
StatsRequest(i, answer) ==
  /\ pc = "off"
  /\ tool[i].pc = "stats"
  /\ wire' = Append(wire, [req |-> "stats", inv |-> i, cred |-> tool[i].cred,
                           answer |-> answer])
  /\ tool' = [tool EXCEPT ![i] = Finish([tool[i] EXCEPT !.stats = answer])]
  /\ UNCHANGED <<checked, runVars, unitVars, loadVars>>

NextTool ==
  \/ \E i \in 1..MaxInvocations, name \in RequestedNames :
       \E input_data \in Inputs(i) : Invoke(i, name, input_data)
  \/ \E i \in 1..MaxInvocations, answer \in LoginAnswers : Login(i, answer)
  \/ \E i \in 1..MaxInvocations, answer \in StatsAnswers : StatsRequest(i, answer)

SpecTool == InitTool /\ [][NextTool]_vars

(***************************************************************************)
(* Properties of the tool invocations                                      *)
(***************************************************************************)
\* The value is a list of exactly n booleans.
HoldsBooleans(v, n) ==
  /\ v.t = "list"
  /\ Len(v.items) = n
  /\ \A k \in 1..Len(v.items) : v.items[k] \in {PyBool(TRUE), PyBool(FALSE)}

\* time_filters as C11 states it: exactly the three keys, holding
\* lists of exactly 12, 5 and 31 booleans.
WellFormedTimeFilters(v) ==
  /\ v.t = "dict"
  /\ Len(v.pairs) = 3
  /\ {v.pairs[k].k : k \in 1..Len(v.pairs)} = {<<"months">>, <<"daysOfWeek">>, <<"daysOfMonth">>}
  /\ HoldsBooleans(DictGet(v, <<"months">>), 12)
  /\ HoldsBooleans(DictGet(v, <<"daysOfWeek">>), 5)
  /\ HoldsBooleans(DictGet(v, <<"daysOfMonth">>), 31)

\* C11 (as claimed): an input is accepted only if time_filters has exactly
\* the keys months, daysOfWeek and daysOfMonth with lists of exactly 12, 5
\* and 31 booleans; months with 11 entries is rejected, and the input that
\* is valid in every field, with 12 booleans for months, is accepted.
C11_TimeFiltersOfBooleans ==
  checked.done =>
    /\ checked.accepted => WellFormedTimeFilters(checked.input_data.time_filters)
    /\ (/\ checked.input_data.time_filters.t = "dict"
        /\ DictGet(checked.input_data.time_filters, <<"months">>).t = "list"
        /\ Len(DictGet(checked.input_data.time_filters, <<"months">>).items) = 11)
         => ~checked.accepted
    /\ checked.input_data = ValidInput => checked.accepted

C13_OneStepPerCycle ==
  /\ pc = "call_model" => step = modelCalls + 1
  /\ (lastNode = "call_model" /\ call.is_last_step) => modelCalls >= recursion_limit - 1
  /\ modelCalls <= recursion_limit

\* C14: the routing decision after call_model depends on the latest message
\* only: tools when it carries tool calls, __end__ when it carries none; the
\* run takes the route decided; tools is entered from call_model only,
\* call_model from the start and from process_tool_results only.
C14_RouteByLatestMessage ==
  /\ (lastNode = "call_model" /\ failure \notin {"ModelError", "AttributeError"}) =>
       /\ call.route \in {"tools", "__end__"}
       /\ call.route = "tools" <=> Last(messages).tool_calls # <<>>
       /\ failure = "none" => pc = call.route
  /\ pc = "tools" => lastNode = "call_model"
  /\ pc = "call_model" => lastNode \in {"__start__", "process_tool_results"}
  /\ pc = "__end__" => lastNode = "call_model"

\* The second reply carries no tool call while an earlier message of the
\* history does, and the run ends.
C14_Witness ==
  /\ lastNode = "call_model"
  /\ modelCalls = 2
  /\ pc = "__end__"
  /\ call.route = "__end__"
  /\ \E i \in 1..Len(messages) : messages[i].tool_calls # <<>>

(***************************************************************************)
(* Further properties of the tool invocations                              *)
(***************************************************************************)
\* The requests sent by invocation i.
Sent(i) == {k \in 1..Len(wire) : wire[k].inv = i}

\* The handler of invocation i was entered.
HandlerEntered(i) == tool[i].name \in ToolNames(TOOLS) /\ tool[i].valid

\* C15 (as claimed): a call whose arguments fail validation sends no login
\* and no statistics request, and its tool result is a structured failure
\* payload (a mapping with success == false and an error text) that the
\* summarizer reports as a tool failure.
C15_ValidationFailureIsStructured ==
  \A i \in 1..MaxInvocations :
    (tool[i].pc = "done" /\ tool[i].name \in ToolNames(TOOLS) /\ ~tool[i].valid) =>
      /\ Sent(i) = {}
      /\ JsonLoads(tool[i].content).ok
      /\ IsDict(JsonLoads(tool[i].content).v)
      /\ DictGet(JsonLoads(tool[i].content).v, <<"success">>) = PyBool(FALSE)
      /\ DictGet(JsonLoads(tool[i].content).v, <<"error">>).t = "str"
      /\ Contains(Summarize(PyStr(tool[i].content)), <<"Tool reported failure:">>)

\* The answers of the two endpoints that count as a failure.
LoginFailures == {"http_error", "request_error", "bad_response"}
StatsFailures == {"http_error", "request_error", "missing_keys", "other_exception"}

\* C19: every invocation of the handler returns a response, which the
\* ToolNode serializes; when the login or the statistics request failed the
\* response has success == false and a non-empty error text.
C19_HandlerAlwaysAnswers ==
  \A i \in 1..MaxInvocations :
    (tool[i].pc = "done" /\ HandlerEntered(i)) =>
      /\ tool[i].result.t = "dict"
      /\ tool[i].content = JsonDumps(tool[i].result)
      /\ (tool[i].login \in LoginFailures \/ tool[i].stats \in StatsFailures) =>
           /\ DictGet(tool[i].result, <<"success">>) = PyBool(FALSE)
           /\ DictGet(tool[i].result, <<"error">>).t = "str"
           /\ DictGet(tool[i].result, <<"error">>).s # <<>>

\* One invocation met an unexpected login response, the other an exception
\* in the statistics request outside the listed ones.
C19_Witness ==
  /\ tool[1].pc = "done"
  /\ tool[1].login = "bad_response"
  /\ tool[2].pc = "done"
  /\ tool[2].stats = "other_exception"

NodeHistories ==
  LET user == HumanMessage(Uuid(0), PyStr(<<"What is BTC doing?">>))
      text == AIMessage(ReplyId(1), PyStr(<<"answer">>), <<>>)
      req == AIMessage(ReplyId(1), PyStr(<<>>), <<[id |-> CallId(1), name |-> TOOLS[1]]>>)
      res == ToolMessage(Uuid(1), PyStr(JsonDumps(FailureResponse(<<"X">>))), CallId(1))
  IN {<<user>>, <<user, text>>, <<user, req>>, <<user, req, res>>,
      <<user, req, res, HumanMessage(Uuid(2), PyStr(<<"and ETH?">>))>>}

InitNode ==
  /\ recursion_limit \in 4..MaxRecursionLimit
  /\ messages \in NodeHistories
  /\ pc = "process_tool_results"
  /\ step = 3
  /\ uuids = 3
  /\ failure = "none"
  /\ lastNode = "__start__"
  /\ call = NoCall
  /\ batch = <<>>
  /\ executed = {}
  /\ modelCalls = 1
  /\ reuse = FALSE
  /\ finished = <<>>
  /\ stA = NoState
  /\ stB = NoState
  /\ outA = NotRun
  /\ outB = NotRun
  /\ ToolsIdle
  /\ Imported

SpecNode == InitNode /\ [][Next]_vars

(***************************************************************************)
(* Properties of the history                                               *)
(***************************************************************************)
IsPrefix(a, b) == Len(a) <= Len(b) /\ SubSeq(b, 1, Len(a)) = a

\* C16 (as claimed): the history before any step is a prefix of the
\* history after it, also when the id of a summary or of a reply equals the
\* id of a message already in the history.
C16_AppendOnly == [][IsPrefix(messages, messages')]_vars

\* C16 (amended): a step never removes or reorders a message: the history
\* does not get shorter, every position keeps the id it had, and no two
\* messages of the history share an id; so a message committed under an id
\* that is already in the history takes the place of that message.
C16_AppendOrReplaceInPlace ==
  /\ [][/\ Len(messages') >= Len(messages)
        /\ \A i \in 1..Len(messages) : messages'[i].id = messages[i].id]_vars
  /\ [](\A i, j \in 1..Len(messages) : i # j => messages[i].id # messages[j].id)

\* process_tool_results ran and the history still ends with the tool
\* result: the summary took the place of an older summary of the same id.
C16_Witness ==
  /\ reuse
  /\ lastNode = "process_tool_results"
  /\ Last(messages).type = "tool"
  /\ \E i \in 1..Len(messages) : messages[i].id = SummaryId(Last(messages).tool_call_id)

\* C17: when process_tool_results runs on a history that does not end with
\* a tool result, the step leaves the history as it is, raises nothing and
\* hands over to call_model.
C17_ProtocolViolationIsNoOp ==
  [][(pc = "process_tool_results" /\ Last(messages).type # "tool") =>
       /\ messages' = messages
       /\ failure' = "none"
       /\ pc' = "call_model"
       /\ lastNode' = "process_tool_results"]_vars

\* process_tool_results ran on a history that ends with the request, the
\* tools node having committed nothing, and call_model is next.
C17_Witness ==
  /\ lastNode = "process_tool_results"
  /\ pc = "call_model"
  /\ Len(messages) = 2
  /\ Last(messages).tool_calls # <<>>

\* The messages process_tool_results committed: the AIMessages that do not
\* carry an id of the model service.
Summaries == {i \in 1..Len(messages) :
                messages[i].type = "ai" /\ messages[i].id \notin {ReplyId(k) : k \in 1..modelCalls}}

\* C18: the id of a summary is "ai_tool_summary_" followed by the id of the
\* call whose result it follows; the summaries of two different calls have
\* different ids; every summary belongs to a call requested earlier in the
\* history.
C18_SummaryIdOfCall ==
  /\ \A i \in Summaries :
       /\ i > 1
       /\ messages[i - 1].type = "tool"
       /\ messages[i].id = "ai_tool_summary_" \o messages[i - 1].tool_call_id
       /\ \E j \in 1..(i - 1) : \E k \in 1..Len(messages[j].tool_calls) :
            messages[i].id = "ai_tool_summary_" \o messages[j].tool_calls[k].id
  /\ \A i, j \in Summaries :
       messages[i - 1].tool_call_id # messages[j - 1].tool_call_id
         => messages[i].id # messages[j].id

\* Two summaries, of two different calls, are in the history.
C18_Witness ==
  \E i, j \in Summaries :
    /\ i < j
    /\ messages[i - 1].tool_call_id # messages[j - 1].tool_call_id
    /\ messages[i].id # messages[j].id

(***************************************************************************)
(* The population of the registry on its own: tools.py lines 351-361 run   *)
(* over any list of statistic configurations, as AVAILABLE_STATS is meant  *)
(* to be extended (lines 299-302).                                         *)
(***************************************************************************)
MaxStats == 2
MaxStatNameLen == 2

\* What statistic names are made of: a word, and the two characters line
\* 338 replaces.
StatAtoms == {"RSI", " ", "-"}

\* A configuration is modelled by its "name"; NoName is one without the key.
NoName == <<"<no name>">>
StatNames == SeqsUpTo(StatAtoms, MaxStatNameLen) \ {<<>>}
StatConfigs == StatNames \cup {NoName}

\* The lists of configurations whose statistic names are distinct.
StatLists ==
  {l \in SeqsUpTo(StatConfigs, MaxStats) :
     \A i, j \in 1..Len(l) : (i # j /\ l[i] # NoName) => l[i] # l[j]}

\* Line 315: stat_config["name"] raises KeyError when the key is missing.
CreationFails(stat_config) == stat_config = NoName

\* create_quantics_tool, lines 306-346: the name of the tool it returns.
create_quantics_tool(stat_config) == ToolFuncName(stat_config)

InitRegistry ==
  /\ configs \in StatLists
  /\ loaded = 0
  /\ registry = <<>>
  /\ recursion_limit = 1
  /\ messages = <<>>
  /\ pc = "off"
  /\ step = 0
  /\ uuids = 0
  /\ failure = "none"
  /\ lastNode = "__start__"
  /\ call = NoCall
  /\ batch = <<>>
  /\ executed = {}
  /\ modelCalls = 0
  /\ reuse = FALSE
  /\ finished = <<>>
  /\ stA = NoState
  /\ stB = NoState
  /\ outA = NotRun
  /\ outB = NotRun
  /\ ToolsIdle

\* One turn of the loop, lines 354-361: the tool of the next configuration
\* is appended to TOOLS.
RegisterTool ==
  /\ loaded < Len(configs)
  /\ ~CreationFails(configs[loaded + 1])
  /\ registry' = Append(registry, create_quantics_tool(configs[loaded + 1]))
  /\ loaded' = loaded + 1
  /\ UNCHANGED <<configs, runVars, unitVars, toolVars>>

\* Lines 359-361: a configuration whose tool cannot be created is logged
\* and left out.
SkipConfig ==
  /\ loaded < Len(configs)
  /\ CreationFails(configs[loaded + 1])
  /\ loaded' = loaded + 1
  /\ UNCHANGED <<configs, registry, runVars, unitVars, toolVars>>

NextRegistry == RegisterTool \/ SkipConfig

SpecRegistry == InitRegistry /\ [][NextRegistry]_vars

(***************************************************************************)
(* Properties of the registry                                              *)
(***************************************************************************)
\* No two entries of the list are equal.
Distinct(l) == \A i, j \in 1..Len(l) : i # j => l[i] # l[j]

\* C21: once the population loop has gone through a list of configurations
\* with distinct statistic names, no two entries of TOOLS have the same
\* name.
C21_DistinctToolNames ==
  loaded = Len(configs) => Distinct(registry)

(***************************************************************************)
(* Properties of the validation of dates                                   *)
(***************************************************************************)
\* The days of month m of year y in the Gregorian calendar.
DaysInMonth(y, m) ==
  IF m \in {4, 6, 9, 11} THEN 30
  ELSE IF m = 2
       THEN IF (y % 4 = 0 /\ y % 100 # 0) \/ y % 400 = 0 THEN 29 ELSE 28
       ELSE 31

\* The integer d, read as YYYYMMDD, names a day of the calendar.
IsCalendarDate(d) ==
  LET y == d \div 10000
      m == (d \div 100) % 100
      dd == d % 100
  IN /\ d >= 10000
     /\ m \in 1..12
     /\ dd \in 1..DaysInMonth(y, m)

\* C22: the arguments are accepted only if start_date and end_date are
\* calendar dates in YYYYMMDD form within 20120101..20241231 with
\* end_date >= start_date, and bar_period >= 1; an input that violates one
\* of these is rejected.
C22_DatesValidated ==
  (checked.done /\ checked.accepted) =>
    LET d == checked.input_data
    IN /\ IsCalendarDate(d.start_date) /\ IsCalendarDate(d.end_date)
       /\ 20120101 <= d.start_date /\ d.start_date <= 20241231
       /\ 20120101 <= d.end_date /\ d.end_date <= 20241231
       /\ d.end_date >= d.start_date
       /\ d.bar_period >= 1

(***************************************************************************)
(* Further properties of process_tool_results                              *)
(***************************************************************************)
\* The openings of the four lines a summary can hold after its header.
LineOpenings ==
  {"Received non-JSON string output:", "Tool reported failure:",
   "Tool Result (parsed dict):", "Received unexpected tool output format:"}

\* Where a describing line opens in the summary.
DescribingLines(summary) == {i \in 1..Len(summary) : summary[i] \in LineOpenings}

\* C23: whatever the content of the tool result, the summary holds, after
\* its header, exactly one describing line (non-JSON text, failure, parsed
\* dict or unexpected format); it is never the header alone.
C23_SummaryDescribesResult ==
  outA.ran =>
    /\ SummaryA # <<"Tool execution summary:">>
    /\ Cardinality(DescribingLines(SummaryA)) = 1

(***************************************************************************)
(* Properties of the failures the model is told about                      *)
(***************************************************************************)
\* The content is a payload with success == false.
IsFailurePayload(content) ==
  /\ PayloadOf(content).ok
  /\ IsDict(PayloadOf(content).v)
  /\ DictGet(PayloadOf(content).v, <<"success">>) = PyBool(FALSE)

\* C24: a tool result whose payload has success == false, whatever its
\* error, is summarized with a "Tool reported failure" line and never with
\* the "Tool Result (parsed dict)" line.
C24_FailuresReportedAsFailures ==
  \A i \in Summaries :
    (/\ failure = "none"
     /\ i > 1
     /\ messages[i - 1].type = "tool"
     /\ IsFailurePayload(messages[i - 1].content)) =>
      /\ Contains(messages[i].content.s, <<"Tool reported failure:">>)
      /\ ~Contains(messages[i].content.s, <<"Tool Result (parsed dict):">>)
====
